---- MODULE Spec2Model ----
(***************************************************************************)
(* renamewheel: src/src/renamewheel/main.py                                *)
(*                                                                         *)
(* main() checks the host platform, analyses the wheel with the three      *)
(* auditwheel calls, rewrites the last '-'-field of the file name with the *)
(* overall policy name and copies the wheel to the new name.               *)
(*                                                                         *)
(* Strings are sequences of one-character strings, so that split, join,    *)
(* basename, dirname and os.path.join are computed as Python computes      *)
(* them.  The file system is a map from absolute normalised paths to file  *)
(* contents plus a fixed set of directories.                               *)
(***************************************************************************)
EXTENDS Integers, Sequences, FiniteSets, TLC

\* ------------------------------------------------------------------ bounds
\* Longest file name (in characters) the rewrite is enumerated over.
MaxLen == 4
\* Number of successive runs of main with the same arguments.
MaxRuns == 2

\* ----------------------------------------------------------------- strings
Ext == <<".", "w", "h", "l">>
Dash == "-"
Slash == "/"

\* Python's None, as a value no string equals.
None == <<"<None>">>

\* Python truthiness of an optional string: None and "" are falsy.
Truthy(s) == s # None /\ s # <<>>

\* str.rfind(ch) + 1: the index of the last occurrence of ch, 0 when absent.
RFind1(s, ch) ==
    LET hits == {i \in 1..Len(s) : s[i] = ch}
    IN  IF hits = {} THEN 0 ELSE CHOOSE i \in hits : \A j \in hits : j <= i

\* The index of the first occurrence of ch, 0 when absent.
Find1(s, ch) ==
    LET hits == {i \in 1..Len(s) : s[i] = ch}
    IN  IF hits = {} THEN 0 ELSE CHOOSE i \in hits : \A j \in hits : i <= j

\* str.split(sep): always at least one field; an empty string gives [""].
RECURSIVE split(_, _)
split(s, sep) ==
    LET i == Find1(s, sep)
    IN  IF i = 0 THEN <<s>>
        ELSE <<SubSeq(s, 1, i - 1)>> \o split(SubSeq(s, i + 1, Len(s)), sep)

\* sep.join(parts)
RECURSIVE join(_, _)
join(parts, sep) ==
    IF Len(parts) = 0 THEN <<>>
    ELSE IF Len(parts) = 1 THEN parts[1]
    ELSE parts[1] \o <<sep>> \o join(Tail(parts), sep)

\* s.rstrip('/')
RECURSIVE rstripSlash(_)
rstripSlash(s) ==
    IF Len(s) > 0 /\ s[Len(s)] = Slash THEN rstripSlash(SubSeq(s, 1, Len(s) - 1))
    ELSE s

\* os.path.basename
basename(p) == SubSeq(p, RFind1(p, Slash) + 1, Len(p))

\* os.path.dirname
dirname(p) ==
    LET head == SubSeq(p, 1, RFind1(p, Slash))
    IN  IF head # <<>> /\ \E i \in 1..Len(head) : head[i] # Slash
        THEN rstripSlash(head) ELSE head

\* os.path.join(a, b)
pathjoin(a, b) ==
    IF Len(b) > 0 /\ b[1] = Slash THEN b
    ELSE IF a = <<>> \/ a[Len(a)] = Slash THEN a \o b
    ELSE a \o <<Slash>> \o b

\* The component loop of os.path.normpath on an absolute path:
\* '' and '.' are skipped, '..' pops a component (and is dropped at the root).
RECURSIVE normComps(_, _)
normComps(comps, acc) ==
    IF Len(comps) = 0 THEN acc
    ELSE LET c == Head(comps)
         IN  IF c = <<>> \/ c = <<".">> THEN normComps(Tail(comps), acc)
             ELSE IF c = <<".", ".">>
                  THEN normComps(Tail(comps),
                                 IF Len(acc) > 0 THEN SubSeq(acc, 1, Len(acc) - 1) ELSE acc)
                  ELSE normComps(Tail(comps), Append(acc, c))

\* The process's current directory.
Cwd == <<Slash, "c">>

\* os.path.abspath: join with the current directory, then normpath.
abspath(p) ==
    LET q == pathjoin(Cwd, p)
    IN  <<Slash>> \o join(normComps(split(q, Slash), <<>>), Slash)


\* ------------------------------------------------------------- file system
\* The directories that exist; none is created or removed by the tool.
Dirs == { <<Slash>>, Cwd, <<Slash, "o">> }

\* The files present before the first run: two wheels in the current
\* directory and one wheel in the other directory.
InitFiles ==
    ( <<Slash, "c", Slash, "n", Dash, "v", Dash, "b">> \o Ext :> 1 ) @@
    ( <<Slash, "c", Slash, "x">> \o Ext :> 2 ) @@
    ( <<Slash, "o", Slash, "n", Dash, "v", Dash, "t">> \o Ext :> 3 )

\* os.path.isfile
isfile(fs, p) == abspath(p) \in DOMAIN fs

\* os.path.isdir
isdir(p) == abspath(p) \in Dirs

\* shutil.copyfile(src, dst): SameFileError when both name the same file,
\* an OSError when dst cannot be opened for writing, otherwise dst holds a
\* copy of src's bytes (an existing dst is overwritten).
copyfile_move(fs, src, dst) ==
    LET s == abspath(src)
        d == abspath(dst)
    IN  IF s \in DOMAIN fs /\ s = d
        THEN [exc |-> "SameFileError", files |-> fs, wrote |-> {}]
        ELSE IF s \notin DOMAIN fs \/ ~isdir(dirname(d))
        THEN [exc |-> "FileNotFoundError", files |-> fs, wrote |-> {}]
        ELSE [exc |-> "",
              files |-> [p \in (DOMAIN fs \cup {d}) \ {s} |->
                            IF p = d THEN fs[s] ELSE fs[p]],
              wrote |-> {d}]

copyfile_exclusive(fs, src, dst) ==
    LET s == abspath(src)
        d == abspath(dst)
    IN  IF s \in DOMAIN fs /\ s = d
        THEN [exc |-> "SameFileError", files |-> fs, wrote |-> {}]
        ELSE IF s \notin DOMAIN fs \/ ~isdir(dirname(d))
        THEN [exc |-> "FileNotFoundError", files |-> fs, wrote |-> {}]
        ELSE IF d \in DOMAIN fs
        THEN [exc |-> "FileExistsError", files |-> fs, wrote |-> {}]
        ELSE [exc |-> "", files |-> (d :> fs[s]) @@ fs, wrote |-> {d}]

copyfile(fs, src, dst) ==
    LET s == abspath(src)
        d == abspath(dst)
    IN  IF s \in DOMAIN fs /\ s = d
        THEN [exc |-> "SameFileError", files |-> fs, wrote |-> {}]
        ELSE IF s \notin DOMAIN fs \/ ~isdir(dirname(d))
        THEN [exc |-> "FileNotFoundError", files |-> fs, wrote |-> {}]
        ELSE [exc |-> "", files |-> (d :> fs[s]) @@ fs, wrote |-> {d}]

\* --------------------------------------------------------- rename decision
\* main, lines 58-60: replace the last '-'-field by the tag, append ".whl".
rewrite_first(file_name, t) ==
    LET parts == split(file_name, Dash)
    IN  join([parts EXCEPT ![1] = t], Dash) \o Ext

rewrite(file_name, t) ==
    LET parts == split(file_name, Dash)
    IN  join([parts EXCEPT ![Len(parts)] = t], Dash) \o Ext

\* main, lines 62-65: the destination path.
destination_cwd(wheel_file, wd, renamed) ==
    IF Truthy(wd) THEN pathjoin(wd, renamed) ELSE renamed

destination(wheel_file, wd, renamed) ==
    IF Truthy(wd) THEN pathjoin(wd, renamed)
    ELSE pathjoin(dirname(wheel_file), renamed)

\* ------------------------------------------------------------------ inputs
Platforms == {"linux", "darwin"}

WheelArgs ==
    { <<"n", Dash, "v", Dash, "b">> \o Ext,
      <<".", Slash, "n", Dash, "v", Dash, "b">> \o Ext,
      <<Slash, "c", Slash, "n", Dash, "v", Dash, "b">> \o Ext,
      <<"x">> \o Ext,
      <<Slash, "o", Slash, "n", Dash, "v", Dash, "t">> \o Ext,
      <<"g", Dash, "b">> \o Ext,
      Cwd }

DirArgs ==
    { None, <<>>, <<".">>, Cwd, <<Slash, "o">>, <<Slash, "m">> }

\* The overall policy names the analyzer can compute.
PolicyNames == { <<"b">>, <<"t">> }

\* What an auditwheel call does: return, or raise one of the two imported
\* exception classes, or raise anything else (zipfile.BadZipFile, ...).
Outcomes == {"ok", "WheelToolsError", "NonPlatformWheel", "OtherError"}

\* What auditwheel finds in the wheel; a function of the file, so the same
\* in every run.
Wheels == [arch : Outcomes, libc : Outcomes, abi : Outcomes, policy : PolicyNames]

\* ------------------------------------------------------------------- state
VARIABLES
    pc,                 \* position in main
    run,                \* number of the current run
    platform,           \* sys.platform
    WHEEL_FILE,         \* args.WHEEL_FILE
    working_dir,        \* args.working_dir
    wheel,              \* what the analyzer finds in the wheel
    files,              \* the file system: absolute path -> content
    arch, libc,         \* _analyse_wheel's locals
    tag,                \* main's tag
    renamed_file_name,
    renamed_wheel_file,
    stdout,             \* the lines printed by this run
    result,             \* how this run of main ended
    abiCalls,           \* the arguments of each analyze_wheel_abi call of this run
    written,            \* the paths this run opened for writing
    files0,             \* the file system when this run started
    prev,               \* result and file system of the previous run
    rwF, rwT, rwOut     \* the pure rewrite: file name, tag, result

vars == <<pc, run, platform, WHEEL_FILE, working_dir, wheel, files, arch, libc,
          tag, renamed_file_name, renamed_wheel_file, stdout, result, abiCalls,
          written, files0, prev, rwF, rwT, rwOut>>

args == <<platform, WHEEL_FILE, working_dir, wheel>>
locals == <<arch, libc, tag, renamed_file_name, renamed_wheel_file>>
rw == <<rwF, rwT, rwOut>>

Running == [kind |-> "running", code |-> -1, exc |-> ""]
Ret(n) == [kind |-> "return", code |-> n, exc |-> ""]
Raise(e) == [kind |-> "raise", code |-> -1, exc |-> e]

NoPrev == [result |-> Running, files |-> InitFiles]

Init ==
    /\ pc = "idle"
    /\ run = 0
    /\ platform = "linux"
    /\ WHEEL_FILE = <<>>
    /\ working_dir = None
    /\ wheel = [arch |-> "ok", libc |-> "ok", abi |-> "ok", policy |-> <<"b">>]
    /\ files = InitFiles
    /\ arch = "unset" /\ libc = "unset"
    /\ tag = None
    /\ renamed_file_name = None
    /\ renamed_wheel_file = None
    /\ stdout = <<>>
    /\ result = Running
    /\ abiCalls = <<>>
    /\ written = {}
    /\ files0 = InitFiles
    /\ prev = NoPrev
    /\ rwF = <<>> /\ rwT = <<>> /\ rwOut = None

\* A user invokes the tool: the host, the parsed arguments (_parse_args,
\* lines 13-18: WHEEL_FILE and -w) and the wheel's properties are fixed.
Invoke ==
    /\ pc = "idle"
    /\ \E pf \in Platforms, wf \in WheelArgs, wd \in DirArgs, w \in Wheels :
          /\ platform' = pf
          /\ WHEEL_FILE' = wf
          /\ working_dir' = wd
          /\ wheel' = w
    /\ pc' = "platform"
    /\ run' = 1
    /\ UNCHANGED <<files, locals, stdout, result, abiCalls, written, files0, prev, rw>>

\* main, lines 46-50.
PlatformCheck_continue ==
    /\ pc = "platform"
    /\ pc' = "isfile"
    /\ UNCHANGED <<stdout, result>>
    /\ UNCHANGED <<run, args, files, locals, abiCalls, written, files0, prev, rw>>

PlatformCheck ==
    /\ pc = "platform"
    /\ IF platform # "linux"
       THEN /\ stdout' = Append(stdout, "Error: This tool only supports Linux")
            /\ result' = Ret(1)
            /\ pc' = "done"
       ELSE /\ pc' = "isfile"
            /\ UNCHANGED <<stdout, result>>
    /\ UNCHANGED <<run, args, files, locals, abiCalls, written, files0, prev, rw>>

\* _analyse_wheel, lines 22-24 (and main, lines 53-54).
IsFileCheck ==
    /\ pc = "isfile"
    /\ IF ~isfile(files, WHEEL_FILE)
       THEN /\ stdout' = Append(stdout, "cannot access WHEEL_FILE. No such file")
            /\ result' = Ret(2)
            /\ pc' = "done"
       ELSE /\ pc' = "arch"
            /\ UNCHANGED <<stdout, result>>
    /\ UNCHANGED <<run, args, files, locals, abiCalls, written, files0, prev, rw>>

\* _analyse_wheel, lines 26-29.
GetArch_strict ==
    /\ pc = "arch"
    /\ CASE wheel.arch = "ok" ->
              arch' = "x86_64" /\ pc' = "libc" /\ UNCHANGED result
         [] wheel.arch = "WheelToolsError" ->
              arch' = "None" /\ pc' = "libc" /\ UNCHANGED result
         [] OTHER ->
              result' = Raise(wheel.arch) /\ pc' = "done" /\ UNCHANGED arch
    /\ UNCHANGED <<run, args, files, libc, tag, renamed_file_name, renamed_wheel_file,
                   stdout, abiCalls, written, files0, prev, rw>>

GetArch ==
    /\ pc = "arch"
    /\ CASE wheel.arch = "ok" ->
              arch' = "x86_64" /\ pc' = "libc" /\ UNCHANGED result
         [] wheel.arch \in {"WheelToolsError", "NonPlatformWheel"} ->
              arch' = "None" /\ pc' = "libc" /\ UNCHANGED result
         [] OTHER ->
              result' = Raise(wheel.arch) /\ pc' = "done" /\ UNCHANGED arch
    /\ UNCHANGED <<run, args, files, libc, tag, renamed_file_name, renamed_wheel_file,
                   stdout, abiCalls, written, files0, prev, rw>>

\* _analyse_wheel, lines 31-34.
GetLibc ==
    /\ pc = "libc"
    /\ CASE wheel.libc = "ok" ->
              libc' = "glibc" /\ pc' = "abi" /\ UNCHANGED result
         [] wheel.libc = "WheelToolsError" ->
              libc' = "None" /\ pc' = "abi" /\ UNCHANGED result
         [] OTHER ->
              result' = Raise(wheel.libc) /\ pc' = "done" /\ UNCHANGED libc
    /\ UNCHANGED <<run, args, files, arch, tag, renamed_file_name, renamed_wheel_file,
                   stdout, abiCalls, written, files0, prev, rw>>

\* _analyse_wheel, lines 36-42 (and main, lines 52-54).
AnalyzeAbi ==
    /\ pc = "abi"
    /\ abiCalls' = Append(abiCalls, [libc |-> libc, arch |-> arch])
    /\ CASE wheel.abi = "ok" ->
              tag' = wheel.policy /\ pc' = "rename" /\ UNCHANGED <<stdout, result>>
         [] wheel.abi = "NonPlatformWheel" ->
              /\ stdout' = Append(stdout, "This does not look like a platform wheel")
              /\ result' = Ret(3)
              /\ pc' = "done"
              /\ UNCHANGED tag
         [] OTHER ->
              result' = Raise(wheel.abi) /\ pc' = "done" /\ UNCHANGED <<tag, stdout>>
    /\ UNCHANGED <<run, args, files, arch, libc, renamed_file_name, renamed_wheel_file,
                   written, files0, prev, rw>>

\* main, lines 56-65.
Rename ==
    /\ pc = "rename"
    /\ LET renamed == rewrite(basename(WHEEL_FILE), tag)
       IN  /\ renamed_file_name' = renamed
           /\ renamed_wheel_file' = destination(WHEEL_FILE, working_dir, renamed)
    /\ pc' = "copy"
    /\ UNCHANGED <<run, args, files, arch, libc, tag, stdout, result, abiCalls,
                   written, files0, prev, rw>>

\* main, lines 67-69.
Copy ==
    /\ pc = "copy"
    /\ stdout' = Append(stdout, "Renaming 'WHEEL_FILE' to 'renamed_wheel_file'.")
    /\ LET c == copyfile(files, WHEEL_FILE, renamed_wheel_file)
       IN  /\ files' = c.files
           /\ written' = written \cup c.wrote
           /\ result' = IF c.exc = "" THEN Ret(0) ELSE Raise(c.exc)
    /\ pc' = "done"
    /\ UNCHANGED <<run, args, locals, abiCalls, files0, prev, rw>>

\* The tool is run again with the same arguments on the same host.
Rerun ==
    /\ pc = "done"
    /\ run < MaxRuns
    /\ prev' = [result |-> result, files |-> files]
    /\ files0' = files
    /\ run' = run + 1
    /\ pc' = "platform"
    /\ arch' = "unset" /\ libc' = "unset"
    /\ tag' = None
    /\ renamed_file_name' = None
    /\ renamed_wheel_file' = None
    /\ stdout' = <<>>
    /\ result' = Running
    /\ abiCalls' = <<>>
    /\ written' = {}
    /\ UNCHANGED <<args, files, rw>>

Next ==
    \/ Invoke
    \/ PlatformCheck
    \/ IsFileCheck
    \/ GetArch
    \/ GetLibc
    \/ AnalyzeAbi
    \/ Rename
    \/ Copy
    \/ Rerun

Spec == Init /\ [][Next]_vars

TypeOK ==
    /\ pc \in {"idle", "platform", "isfile", "arch", "libc", "abi", "rename", "copy", "done"}
    /\ run \in 0..MaxRuns
    /\ result.kind \in {"running", "return", "raise"}


\* ------------------------------------------------- the rewrite on its own
\* Every file name of at most MaxLen characters over this alphabet, and a
\* few tags, one of them with a '-' of its own.
Alphabet == {"a", "b", Dash}
Names == UNION { [1..k -> Alphabet] : k \in 0..MaxLen }
Tags == { <<"t">>, <<"b">>, <<"t", "u">>, <<"t", Dash, "u">> }

InitRewrite ==
    /\ pc = "pure"
    /\ run = 0
    /\ platform = "linux"
    /\ WHEEL_FILE = <<>>
    /\ working_dir = None
    /\ wheel = [arch |-> "ok", libc |-> "ok", abi |-> "ok", policy |-> <<"b">>]
    /\ files = InitFiles
    /\ arch = "unset" /\ libc = "unset"
    /\ tag = None
    /\ renamed_file_name = None
    /\ renamed_wheel_file = None
    /\ stdout = <<>>
    /\ result = Running
    /\ abiCalls = <<>>
    /\ written = {}
    /\ files0 = InitFiles
    /\ prev = NoPrev
    /\ rwF \in Names
    /\ rwT \in Tags
    /\ rwOut = None

\* main, lines 58-60, applied to the chosen file name and tag.
ApplyRewrite ==
    /\ pc = "pure"
    /\ rwOut = None
    /\ rwOut' = rewrite(rwF, rwT)
    /\ UNCHANGED <<pc, run, args, files, locals, stdout, result, abiCalls, written,
                   files0, prev, rwF, rwT>>

NextRewrite == ApplyRewrite

SpecRewrite == InitRewrite /\ [][NextRewrite]_vars

\* ------------------------------------------------------------------ claims
Done == pc = "done"
SrcAbs == abspath(WHEEL_FILE)
Returned(n) == result = Ret(n)
DestComputed == renamed_wheel_file # None
SameDest == DestComputed /\ abspath(renamed_wheel_file) = SrcAbs

\* The wheel is one on which the analysis of lines 26-42 yields a tag.
Analysable ==
    /\ wheel.arch \in {"ok", "WheelToolsError", "NonPlatformWheel"}
    /\ wheel.libc \in {"ok", "WheelToolsError"}
    /\ wheel.abi = "ok"

\* C1: whenever the destination path computed by main equals the source
\* path after normalisation to an absolute path, main writes no file and
\* returns 0 (the no-op decision).
C1_NoOpReturnsZero ==
    (Done /\ SameDest) => (Returned(0) /\ written = {} /\ files = files0)

\* C2: with an explicit -w directory that does not exist, and a source that
\* exists and is a valid platform wheel, main returns exit code 4.
C2_InvalidDirReturns4 ==
    (Done /\ platform = "linux" /\ isfile(files0, WHEEL_FILE) /\ Analysable
          /\ Truthy(working_dir) /\ ~isdir(working_dir))
       => Returned(4)

\* C3: every run of main ends by returning an exit code in {0,1,2,3,4}; no
\* exception of the analyzer calls or of the file copy escapes main.
C3_AlwaysReturnsExitCode ==
    Done => (result.kind = "return" /\ result.code \in 0..4)

\* C4: without a verbose flag (the parser of lines 13-18 has none, so in
\* every run) main prints nothing to standard output, whatever the outcome.
C4_SilentByDefault ==
    stdout = <<>>

C6_PreconditionOrder ==
    /\ platform # "linux" /\ pc # "idle"
          => /\ abiCalls = <<>> /\ written = {} /\ files = files0
             /\ Done => Returned(1)
    /\ platform = "linux" /\ pc # "idle" /\ ~isfile(files0, WHEEL_FILE)
          => /\ abiCalls = <<>> /\ written = {} /\ files = files0
             /\ Done => Returned(2)

C6_Witness ==
    /\ Done /\ platform # "linux"
    /\ ~isfile(files0, WHEEL_FILE)
    /\ Truthy(working_dir) /\ ~isdir(working_dir)
    /\ Returned(1)

C8_SourceUntouched ==
    (pc # "idle" /\ SrcAbs \in DOMAIN InitFiles)
       => (SrcAbs \in DOMAIN files /\ files[SrcAbs] = InitFiles[SrcAbs])

C8_Witness ==
    /\ Done /\ Returned(0)
    /\ written # {} /\ SrcAbs \notin written
    /\ files[SrcAbs] = InitFiles[SrcAbs]

====
